---- MODULE Spec2Model ----
(***************************************************************************)
(* Client bootstrap script (src/js/main.js): template loading, the         *)
(* localStorage login state, the auth container renderer, the page         *)
(* bootstrap, the lazy image loader with its observers, and the expiring   *)
(* storage and button utilities, as a state machine of browser tasks.      *)
(* Every synchronous handler (login, logout, updateAuthUI, each            *)
(* continuation of an await, each observer callback) is one action:        *)
(* JavaScript runs a task to completion.                                   *)
(***************************************************************************)
EXTENDS Integers, Sequences, FiniteSets, TLC

VARIABLES
  storage,     \* localStorage: key -> stored item
  clock,       \* the wall clock read by new Date()
  headerEl,    \* #app-header: "missing", or the text it holds
  footerEl,    \* #app-footer: "missing", or the text it holds
  authLoc,     \* where .auth-container lives: "page" (the page's markup), "header" (the header template)
  authEl,      \* .auth-container: [frag, name]
  listeners,   \* number of attachHeaderEventListeners runs on this page
  bootPc,      \* position of the DOMContentLoaded handler
  ltPc,        \* position of loadTemplates
  hFetch,      \* header fetch: "none", "pending", "ok", "status", "rejected"
  fFetch,      \* footer fetch, likewise
  hCount,      \* number of header fetches issued on this page
  fCount,      \* number of footer fetches issued on this page
  pageBefore,  \* [header, footer]: container contents when loadTemplates began
  console,     \* set of console.error messages of this page
  appReady,    \* number of 'app:ready' events dispatched on this page
  lazyRuns,    \* number of setupLazyLoading runs made by the bootstrap
  bootAuth,    \* the bootstrap's updateAuthUI call returned normally
  observing,   \* the MutationObserver is installed
  location,    \* "page", or "/" once a navigation to the site root has begun
  call,        \* record of the last task that ran
  images,      \* the page's img elements: name -> [inDom, dataSrc, src, ...]
  hasIO,       \* 'IntersectionObserver' in window
  mutationPending, \* the MutationObserver holds records its callback has not taken
  button       \* a button handed to setButtonLoading

vars == << storage, clock, headerEl, footerEl, authLoc, authEl, listeners,
           bootPc, ltPc, hFetch, fFetch, hCount, fCount, pageBefore, console,
           appReady, lazyRuns, bootAuth, observing, location, call,
           images, hasIO, mutationPending, button >>

\* ------------------------------------------------------------------ bounds

\* Clock readings taken within one minute (milliseconds).
MaxClock == 1
\* Whole minutes the clock is let run.
MaxMinutes == 2
\* IntersectionObservers that watch one image at a time.
MaxObservers == 2
\* setButtonLoading(button, true) calls in a row.
MaxLoads == 2

\* --------------------------------------------------------------- constants

\* expiryMinutes * 60 * 1000
MsPerMinute == 60 * 1000

StorageKey == "user_logged_in"
UserDataKey == "user_data"
OtherKey == "x"
Keys == {StorageKey, UserDataKey, OtherKey}

\* ----------------------------------------------------------------- strings
\* A JavaScript string is a sequence of characters.

SampleEmail == << "a", "@", "<", "b", ">", "&", "l", "t", ";" >>
SampleName == << "u", "&" >>
DefaultUser == << "U", "s", "e", "r" >>

\* A property value of a user data object: a string, or undefined (absent).
Str(s) == [k |-> "string", s |-> s]
Undef == [k |-> "undefined", s |-> << >>]

EmailVals == {Undef, Str(<< >>), Str(SampleEmail)}
NameVals == {Undef, Str(SampleName)}

\* A time stamp property: absent, the toISOString() text of a clock reading,
\* or a value the caller put there.
NoTime == [k |-> "undefined", t |-> 0]
ISOString(t) == [k |-> "iso", t |-> t]
CallerTime == [k |-> "caller", t |-> 0]

\* The properties of a user data object that the script reads or writes.
EmptyObj == [email |-> Undef, username |-> Undef, loginTime |-> NoTime]

\* The argument of login(): the object's properties, and whether it holds a
\* reference cycle (JSON.stringify throws on one).
PlainArgs ==
  [email : EmailVals, username : NameVals, loginTime : {NoTime}, circular : {FALSE}]
StampedArg ==
  [email |-> Str(SampleEmail), username |-> Undef, loginTime |-> CallerTime,
   circular |-> FALSE]
CircularArg ==
  [email |-> Str(SampleEmail), username |-> Undef, loginTime |-> NoTime,
   circular |-> TRUE]
UserDataArgs == PlainArgs \cup {StampedArg, CircularArg}

\* ------------------------------------------------------------ stored items
\* What localStorage.getItem returns: null, or a string.  A string is the
\* JSON text of an object, the JSON text "null", "true", "false", the empty
\* string, or text that is no JSON.

NoItem == [t |-> "null", o |-> EmptyObj]
Text(tag) == [t |-> tag, o |-> EmptyObj]
JsonText(obj) == [t |-> "json", o |-> obj]

\* JavaScript truthiness of a getItem result: null and "" are falsy.
Truthy(item) == item.t \notin {"null", "empty"}

SetItem(st, key, item) == [st EXCEPT ![key] = item]
RemoveItem(st, key) == [st EXCEPT ![key] = NoItem]

\* JSON.parse of a stored string: [threw, o].  o holds the properties read
\* through ?. afterwards (null and primitives have none).
JSONParse(item) ==
  CASE item.t = "json" -> [threw |-> FALSE, o |-> item.o]
    [] item.t \in {"jsonnull", "true", "false"} -> [threw |-> FALSE, o |-> EmptyObj]
    [] OTHER -> [threw |-> TRUE, o |-> EmptyObj]

\* The object literal { ...userData, loginTime: new Date().toISOString() }.
WithLoginTime(ud, now) ==
  [email |-> ud.email, username |-> ud.username, loginTime |-> ISOString(now)]

\* JSON.stringify: [threw, item].
JSONStringify(obj, circular) ==
  IF circular THEN [threw |-> TRUE, item |-> NoItem]
  ELSE [threw |-> FALSE, item |-> JsonText(obj)]

\* ------------------------------------------------------------ escapeHTML
\* div.textContent = text; return div.innerHTML: the serialisation of a text
\* node replaces & < > by their entities.

RECURSIVE escapeHTML(_)
escapeHTML(text) ==
  IF text = << >> THEN << >>
  ELSE LET c == Head(text)
           e == CASE c = "&" -> << "&", "a", "m", "p", ";" >>
                  [] c = "<" -> << "&", "l", "t", ";" >>
                  [] c = ">" -> << "&", "g", "t", ";" >>
                  [] OTHER -> << c >>
       IN  e \o escapeHTML(Tail(text))

\* What the browser shows for markup assigned to innerHTML: tags are elements,
\* not text, and the entities stand for their characters.
StartsWith(s, p) == Len(s) >= Len(p) /\ SubSeq(s, 1, Len(p)) = p
Drop(s, n) == SubSeq(s, n + 1, Len(s))

RECURSIVE AfterTag(_)
AfterTag(s) ==
  IF s = << >> THEN << >>
  ELSE IF Head(s) = ">" THEN Tail(s) ELSE AfterTag(Tail(s))

RECURSIVE RenderedText(_)
RenderedText(html) ==
  IF html = << >> THEN << >>
  ELSE IF StartsWith(html, << "&", "a", "m", "p", ";" >>)
         THEN << "&" >> \o RenderedText(Drop(html, 5))
  ELSE IF StartsWith(html, << "&", "l", "t", ";" >>)
         THEN << "<" >> \o RenderedText(Drop(html, 4))
  ELSE IF StartsWith(html, << "&", "g", "t", ";" >>)
         THEN << ">" >> \o RenderedText(Drop(html, 4))
  ELSE IF Head(html) = "<" THEN RenderedText(AfterTag(Tail(html)))
  ELSE << Head(html) >> \o RenderedText(Tail(html))

\* ------------------------------------------------------------- auth state

isLoggedIn(st) == st[StorageKey] = Text("true")

\* Mutant: the parse is guarded and a failure reads as no user data.
getUserDataGuarded(st) ==
  IF Truthy(st[UserDataKey]) /\ ~JSONParse(st[UserDataKey]).threw
    THEN JSONParse(st[UserDataKey])
    ELSE [threw |-> FALSE, o |-> EmptyObj]

\* data ? JSON.parse(data) : null, as [threw, o].
getUserData(st) ==
  IF Truthy(st[UserDataKey]) THEN JSONParse(st[UserDataKey])
  ELSE [threw |-> FALSE, o |-> EmptyObj]

\* x || y over property values: the empty string and undefined are falsy.
PropTruthy(v) == v.k = "string" /\ v.s # << >>

\* Mutant: the username field is consulted before the email field.
UsernameFirst(o) ==
  IF o.username.k = "string" /\ o.username.s # << >> THEN o.username.s
  ELSE IF o.email.k = "string" /\ o.email.s # << >> THEN o.email.s
  ELSE DefaultUser

\* userData?.email || userData?.username || 'User'
Username(o) ==
  IF PropTruthy(o.email) THEN o.email.s
  ELSE IF PropTruthy(o.username) THEN o.username.s
  ELSE DefaultUser

\* The auth container: [frag, name].  frag is "missing" (no such element),
\* "prior" (the page's own markup), "template" (the markup the header template
\* brought), "login" (the login link) or "welcome" (the welcome block, name
\* being the markup between <strong> and </strong>).
AuthEl(frag) == [frag |-> frag, name |-> << >>]
WelcomeEl(html) == [frag |-> "welcome", name |-> html]

\* updateAuthUI on storage st and container el: [threw, el].
updateAuthUI(st, el) ==
  IF el.frag = "missing" THEN [threw |-> FALSE, el |-> el]
  ELSE IF isLoggedIn(st)
    THEN LET userData == getUserData(st)
         IN  IF userData.threw THEN [threw |-> TRUE, el |-> el]
             ELSE [threw |-> FALSE,
                   el |-> WelcomeEl(escapeHTML(Username(userData.o)))]
    ELSE [threw |-> FALSE, el |-> AuthEl("login")]

\* ------------------------------------------------------- handler records
\* One side effect of a handler, with what storage and the auth container
\* held at the moment it happened.  detail is the payload of a dispatched
\* CustomEvent.
NoDetail ==
  [email |-> Undef, username |-> Undef, loginTime |-> NoTime, circular |-> FALSE]

Effect(e, st, el, detail) ==
  [e |-> e, flag |-> st[StorageKey].t, data |-> st[UserDataKey].t,
   frag |-> el.frag, detail |-> detail]

\* The last task: its name, whether it threw to the top level (an uncaught
\* error) and its side effects in order.  History kept with it: for login,
\* whether both auth keys were absent when it began (cleanStart) and what the
\* other key held then (xStart); for logout and updateAuthUI, the task they
\* directly follow when that is a returned login that began clean
\* ("cleanLogin", xStart carried over) or another updateAuthUI call; and
\* whether the MutationObserver's callback has run on the task's changes
\* (observed).
Call(op, threw, effects, cleanStart, xStart, follows) ==
  [op |-> op, threw |-> threw, effects |-> effects,
   cleanStart |-> cleanStart, xStart |-> xStart, follows |-> follows,
   observed |-> FALSE]

Task(op) == Call(op, FALSE, << >>, FALSE, NoItem, "-")
NoCall == Task("none")

\* ---------------------------------------------------------------- the page

HeaderHTML == "header.html"
FooterHTML == "footer.html"
PriorContents == {"missing", "placeholder"}
AuthLocs == {"page", "header"}

\* The img elements a page may hold, named by the URL their data-src carries.
Images == {"a.jpg", "b.jpg"}

\* An img element: whether it is in the document, its data-src attribute
\* ("none" when it has none), its src attribute, whether it intersects the
\* viewport, and the number of IntersectionObservers that observe it.  History
\* kept with it: the intersection callbacks that have handled it (handled) and
\* the times the loader has set its src (copies).
NoImage ==
  [inDom |-> FALSE, dataSrc |-> "none", src |-> "none", visible |-> FALSE,
   observers |-> 0, handled |-> 0, copies |-> 0]
DeferredImage(i, v) == [NoImage EXCEPT !.inDom = TRUE, !.dataSrc = i, !.visible = v]
EagerImage(v) == [NoImage EXCEPT !.inDom = TRUE, !.src = "eager.jpg", !.visible = v]
MarkupImages(i) ==
  {NoImage} \cup {DeferredImage(i, v) : v \in BOOLEAN} \cup {EagerImage(FALSE)}
NoImages == [i \in Images |-> NoImage]

\* img.src = img.dataset.src; img.removeAttribute('data-src')
Resolve(img) ==
  [img EXCEPT !.src = img.dataSrc, !.dataSrc = "none", !.copies = @ + 1]

\* setupLazyLoading() over the document's images: with IntersectionObserver a
\* new observer is created and observes every img[data-src]; without it
\* every img[data-src] is resolved at once.
setupLazyLoading(imgs, io) ==
  [i \in Images |->
     IF imgs[i].inDom /\ imgs[i].dataSrc # "none"
       THEN IF io THEN [imgs[i] EXCEPT !.observers = @ + 1]
            ELSE Resolve(imgs[i])
       ELSE imgs[i]]

\* A button as the page's markup has it: enabled, its label as text, no
\* data-original-text.  History kept with it: the text it had when the
\* current run of setButtonLoading(button, true) calls began (L), the length
\* of that run (loads), and whether the last call was a
\* setButtonLoading(button, false) that ended such a run (restored).
MarkupButton(label) ==
  [disabled |-> FALSE, text |-> label, originalText |-> "none", label |-> label,
   L |-> label, loads |-> 0, restored |-> FALSE]
Labels == {"Save", "Send"}

\* Storage as the script's own write paths leave it on a first visit.
FreshStorage ==
  { [k \in Keys |-> IF k = OtherKey THEN x ELSE NoItem] :
      x \in {Text("opaque")} }

\* Storage as any other writer (another script, the user) may have left it.
TamperedFlags == {NoItem, Text("true"), Text("false")}
TamperedData ==
  {NoItem, Text("empty"), Text("garbage"), Text("jsonnull"),
   JsonText([email |-> Str(SampleEmail), username |-> Undef, loginTime |-> NoTime]),
   JsonText([email |-> Str(<< >>), username |-> Str(SampleName),
             loginTime |-> ISOString(0)])}
TamperedStorage ==
  { [k \in Keys |-> CASE k = StorageKey -> f [] k = UserDataKey -> d [] OTHER -> NoItem] :
      f \in TamperedFlags, d \in TamperedData }

InitPage(st) ==
  /\ storage \in st
  /\ clock = 0
  /\ headerEl \in PriorContents
  /\ footerEl \in PriorContents
  /\ authLoc \in AuthLocs
  /\ authEl = IF authLoc = "page" THEN AuthEl("prior") ELSE AuthEl("missing")
  /\ listeners = 0
  /\ bootPc = "start"
  /\ ltPc = "idle"
  /\ hFetch = "none"
  /\ fFetch = "none"
  /\ hCount = 0
  /\ fCount = 0
  /\ pageBefore = [header |-> headerEl, footer |-> footerEl]
  /\ console = {}
  /\ appReady = 0
  /\ lazyRuns = 0
  /\ bootAuth = FALSE
  /\ observing = FALSE
  /\ location = "page"
  /\ call = NoCall
  /\ mutationPending = FALSE

\* A page without images, on a browser that has IntersectionObserver.
PlainPage ==
  /\ images = NoImages
  /\ hasIO = TRUE
  /\ button = MarkupButton("Save")

Init == InitPage(FreshStorage) /\ PlainPage
InitTampered == InitPage(TamperedStorage) /\ PlainPage

\* A page that includes the script is loaded (a first visit, a reload, the
\* navigation logout starts): a new document, the same localStorage.
PageLoad(h, f, a) ==
  /\ ~(bootPc = "awaitTemplates" /\ ltPc = "done")
  /\ ~mutationPending
  /\ headerEl' = h
  /\ footerEl' = f
  /\ authLoc' = a
  /\ authEl' = IF a = "page" THEN AuthEl("prior") ELSE AuthEl("missing")
  /\ listeners' = 0
  /\ bootPc' = "start"
  /\ ltPc' = "idle"
  /\ hFetch' = "none"
  /\ fFetch' = "none"
  /\ hCount' = 0
  /\ fCount' = 0
  /\ pageBefore' = [header |-> h, footer |-> f]
  /\ console' = {}
  /\ appReady' = 0
  /\ lazyRuns' = 0
  /\ bootAuth' = FALSE
  /\ observing' = FALSE
  /\ location' = "page"
  /\ call' = Task("pageLoad")
  /\ UNCHANGED << storage, clock >>
  /\ images' = NoImages
  /\ mutationPending' = FALSE
  /\ button' = MarkupButton(button.label)
  /\ UNCHANGED hasIO

\* The clock goes on by a millisecond.
Tick ==
  /\ clock % MsPerMinute < MaxClock
  /\ clock' = clock + 1
  /\ UNCHANGED << storage, headerEl, footerEl, authLoc, authEl, listeners, bootPc,
                  ltPc, hFetch, fFetch, hCount, fCount, pageBefore, console,
                  appReady, lazyRuns, bootAuth, observing, location, call >>
  /\ UNCHANGED << images, hasIO, mutationPending, button >>

\* ------------------------------------------------------------ loadTemplates
\* loadTemplates is one async function: each await ends a task, and the
\* function goes on in a later task when the awaited promise settles.

ErrHeaderStatus == "Failed to load header template:"
ErrFooterStatus == "Failed to load footer template:"
ErrTemplates == "Error loading templates:"
ErrInit == "Error initializing app:"

FetchOutcomes == {"ok", "status", "rejected"}

\* const footerResponse = await fetch(...footerFile): the request goes out.
FetchFooter ==
  /\ fFetch' = "pending"
  /\ fCount' = fCount + 1
  /\ ltPc' = "footerFetch"

\* Mutant: both requests go out at once (Promise.all over the two fetches).
DOMContentLoadedParallel ==
  /\ bootPc = "start"
  /\ bootPc' = "awaitTemplates"
  /\ ltPc' = "headerFetch"
  /\ hFetch' = "pending"
  /\ hCount' = hCount + 1
  /\ fFetch' = "pending"
  /\ fCount' = fCount + 1
  /\ pageBefore' = [header |-> headerEl, footer |-> footerEl]
  /\ call' = Task("DOMContentLoaded")
  /\ UNCHANGED << storage, clock, headerEl, footerEl, authLoc, authEl, listeners,
                  console, appReady, lazyRuns, bootAuth, observing, location >>
  /\ UNCHANGED << images, hasIO, mutationPending, button >>

\* The DOMContentLoaded handler up to its first await: loadTemplates() is
\* called and runs up to await fetch(...headerFile).
DOMContentLoaded ==
  /\ bootPc = "start"
  /\ bootPc' = "awaitTemplates"
  /\ ltPc' = "headerFetch"
  /\ hFetch' = "pending"
  /\ hCount' = hCount + 1
  /\ pageBefore' = [header |-> headerEl, footer |-> footerEl]
  /\ call' = Task("DOMContentLoaded")
  /\ UNCHANGED << storage, clock, headerEl, footerEl, authLoc, authEl, listeners,
                  fFetch, fCount, console, appReady, lazyRuns, bootAuth,
                  observing, location >>
  /\ UNCHANGED << images, hasIO, mutationPending, button >>

\* Mutant: the response's ok flag is not looked at, so the body of an error
\* response is read and injected like a template.
HeaderResponseNoOkCheck(outcome) ==
  /\ ltPc = "headerFetch"
  /\ hFetch = "pending"
  /\ hFetch' = outcome
  /\ call' = Task("headerResponse")
  /\ IF outcome \in {"ok", "status"}
       THEN /\ ltPc' = "headerText"
            /\ UNCHANGED console
       ELSE /\ console' = console \cup {ErrTemplates}
            /\ ltPc' = "done"
  /\ UNCHANGED << storage, clock, headerEl, footerEl, authLoc, authEl, listeners,
                  bootPc, hCount, fFetch, fCount, pageBefore, appReady, lazyRuns,
                  bootAuth, observing, location >>
  /\ UNCHANGED << images, hasIO, mutationPending, button >>

\* Mutant: a rejected header fetch is not caught, so loadTemplates rejects.
HeaderResponseUncaught(outcome) ==
  /\ ltPc = "headerFetch"
  /\ hFetch = "pending"
  /\ hFetch' = outcome
  /\ call' = Task("headerResponse")
  /\ CASE outcome = "ok" ->
            /\ ltPc' = "headerText"
            /\ UNCHANGED << fFetch, fCount, console >>
       [] outcome = "status" ->
            /\ console' = console \cup {ErrHeaderStatus}
            /\ FetchFooter
       [] OTHER ->
            /\ ltPc' = "rejected"
            /\ UNCHANGED << fFetch, fCount, console >>
  /\ UNCHANGED << storage, clock, headerEl, footerEl, authLoc, authEl, listeners,
                  bootPc, hCount, pageBefore, appReady, lazyRuns, bootAuth,
                  observing, location >>
  /\ UNCHANGED << images, hasIO, mutationPending, button >>

\* The header fetch settles: a response with an ok status, a response with
\* another status, or a rejection (network error).
HeaderResponse(outcome) ==
  /\ ltPc = "headerFetch"
  /\ hFetch = "pending"
  /\ hFetch' = outcome
  /\ call' = Task("headerResponse")
  /\ CASE outcome = "ok" ->
            /\ ltPc' = "headerText"
            /\ UNCHANGED << fFetch, fCount, console >>
       [] outcome = "status" ->
            /\ console' = console \cup {ErrHeaderStatus}
            /\ FetchFooter
       [] OTHER ->
            /\ console' = console \cup {ErrTemplates}
            /\ ltPc' = "done"
            /\ UNCHANGED << fFetch, fCount >>
  /\ UNCHANGED << storage, clock, headerEl, footerEl, authLoc, authEl, listeners,
                  bootPc, hCount, pageBefore, appReady, lazyRuns, bootAuth,
                  observing, location >>
  /\ UNCHANGED << images, hasIO, mutationPending, button >>

\* Mutant: the handlers are attached as soon as the text is there, before
\* the container is looked up.
HeaderTextAttachFirst(ok) ==
  /\ ltPc = "headerText"
  /\ call' = Task("headerText")
  /\ listeners' = IF ok THEN listeners + 1 ELSE listeners
  /\ IF ok /\ headerEl # "missing"
       THEN /\ headerEl' = HeaderHTML
            /\ authEl' = IF authLoc = "header" THEN AuthEl("template") ELSE authEl
            /\ FetchFooter
            /\ UNCHANGED << hFetch, console >>
       ELSE /\ hFetch' = IF ok THEN hFetch ELSE "bodyError"
            /\ console' = console \cup {ErrTemplates}
            /\ ltPc' = "done"
            /\ UNCHANGED << headerEl, authEl, fFetch, fCount >>
  /\ UNCHANGED << storage, clock, footerEl, authLoc, bootPc, hCount, pageBefore,
                  appReady, lazyRuns, bootAuth, observing, location >>
  /\ UNCHANGED << images, hasIO, mutationPending, button >>

\* await headerResponse.text() settles; on success the text is injected,
\* attachHeaderEventListeners runs and the footer fetch goes out.  A rejected
\* body read, or a missing #app-header (querySelector gives null), throws into
\* the catch.
HeaderText(ok) ==
  /\ ltPc = "headerText"
  /\ call' = Task("headerText")
  /\ IF ok /\ headerEl # "missing"
       THEN /\ headerEl' = HeaderHTML
            /\ authEl' = IF authLoc = "header" THEN AuthEl("template") ELSE authEl
            /\ listeners' = listeners + 1
            /\ FetchFooter
            /\ UNCHANGED << hFetch, console >>
       ELSE /\ hFetch' = IF ok THEN hFetch ELSE "bodyError"
            /\ console' = console \cup {ErrTemplates}
            /\ ltPc' = "done"
            /\ UNCHANGED << headerEl, authEl, listeners, fFetch, fCount >>
  /\ UNCHANGED << storage, clock, footerEl, authLoc, bootPc, hCount, pageBefore,
                  appReady, lazyRuns, bootAuth, observing, location >>
  /\ UNCHANGED << images, hasIO, mutationPending, button >>

\* The footer fetch settles.
FooterResponse(outcome) ==
  /\ ltPc = "footerFetch"
  /\ fFetch = "pending"
  /\ fFetch' = outcome
  /\ call' = Task("footerResponse")
  /\ CASE outcome = "ok" ->
            /\ ltPc' = "footerText"
            /\ UNCHANGED console
       [] outcome = "status" ->
            /\ console' = console \cup {ErrFooterStatus}
            /\ ltPc' = "done"
       [] OTHER ->
            /\ console' = console \cup {ErrTemplates}
            /\ ltPc' = "done"
  /\ UNCHANGED << storage, clock, headerEl, footerEl, authLoc, authEl, listeners,
                  bootPc, hFetch, hCount, fCount, pageBefore, appReady, lazyRuns,
                  bootAuth, observing, location >>
  /\ UNCHANGED << images, hasIO, mutationPending, button >>

\* await footerResponse.text() settles.
FooterText(ok) ==
  /\ ltPc = "footerText"
  /\ call' = Task("footerText")
  /\ ltPc' = "done"
  /\ IF ok /\ footerEl # "missing"
       THEN /\ footerEl' = FooterHTML
            /\ UNCHANGED << fFetch, console >>
       ELSE /\ fFetch' = IF ok THEN fFetch ELSE "bodyError"
            /\ console' = console \cup {ErrTemplates}
            /\ UNCHANGED footerEl
  /\ UNCHANGED << storage, clock, headerEl, authLoc, authEl, listeners, bootPc,
                  hFetch, hCount, fCount, pageBefore, appReady, lazyRuns,
                  bootAuth, observing, location >>
  /\ UNCHANGED << images, hasIO, mutationPending, button >>

\* ------------------------------------------------------------- bootstrap
\* Mutant: 'app:ready' is dispatched in a finally block, whether or not the
\* steps before it went through.
BootContinueAlwaysReady ==
  /\ bootPc = "awaitTemplates"
  /\ ltPc = "done"
  /\ call' = Task("bootContinue")
  /\ lazyRuns' = lazyRuns + 1
  /\ appReady' = appReady + 1
  /\ LET r == updateAuthUI(storage, authEl)
     IN  IF r.threw
           THEN /\ console' = console \cup {ErrInit}
                /\ bootPc' = "failed"
                /\ UNCHANGED << authEl, bootAuth, observing >>
           ELSE /\ authEl' = r.el
                /\ bootAuth' = TRUE
                /\ observing' = TRUE
                /\ bootPc' = "done"
                /\ UNCHANGED console
  /\ UNCHANGED << storage, clock, headerEl, footerEl, authLoc, listeners, ltPc,
                  hFetch, fFetch, hCount, fCount, pageBefore, location >>
  /\ images' = setupLazyLoading(images, hasIO)
  /\ UNCHANGED << hasIO, mutationPending, button >>

\* The DOMContentLoaded handler after await loadTemplates(): setupLazyLoading,
\* updateAuthUI, the MutationObserver, the 'app:ready' event; an exception on
\* the way is caught and logged by the handler's own catch.
BootContinue ==
  /\ bootPc = "awaitTemplates"
  /\ ltPc = "done"
  /\ call' = Task("bootContinue")
  /\ lazyRuns' = lazyRuns + 1
  /\ LET r == updateAuthUI(storage, authEl)
     IN  IF r.threw
           THEN /\ console' = console \cup {ErrInit}
                /\ bootPc' = "failed"
                /\ UNCHANGED << authEl, bootAuth, observing, appReady >>
           ELSE /\ authEl' = r.el
                /\ bootAuth' = TRUE
                /\ observing' = TRUE
                /\ appReady' = appReady + 1
                /\ bootPc' = "done"
                /\ UNCHANGED console
  /\ UNCHANGED << storage, clock, headerEl, footerEl, authLoc, listeners, ltPc,
                  hFetch, fFetch, hCount, fCount, pageBefore, location >>
  /\ images' = setupLazyLoading(images, hasIO)
  /\ UNCHANGED << hasIO, mutationPending, button >>

\* The continuation of await loadTemplates() and the MutationObserver's
\* callback are microtasks: once queued they run before any other task.
MicrotaskPending == (bootPc = "awaitTemplates" /\ ltPc = "done") \/ mutationPending

\* The MutationObserver watches document.body for childList changes in the
\* whole subtree.  A handler whose record c holds a render has assigned the
\* innerHTML of auth container el (when the page has one), which replaces the
\* container's children.
ChildListChanged(el, c) ==
  /\ observing
  /\ el.frag # "missing"
  /\ \E n \in 1..Len(c.effects) : c.effects[n].e = "render"

\* ---------------------------------------------------------- login / logout

\* Where a localStorage.setItem of login throws QuotaExceededError: nowhere,
\* at the flag write, or at the data write.
QuotaFailures == {"none", "flag", "data"}

\* The calls of login: any argument when storage has room, and a call that
\* meets a full storage at either write.
LoginCalls ==
  { << u, "none" >> : u \in UserDataArgs }
    \cup { << CircularArg, q >> : q \in QuotaFailures \ {"none"} }
    \cup { << [CircularArg EXCEPT !.circular = FALSE], q >> : q \in QuotaFailures \ {"none"} }

\* Mutant: the event is dispatched first, the writes follow.
loginRunDispatchFirst(st, el, userData, quota, now) ==
  LET s1 == SetItem(st, StorageKey, Text("true"))
      json == JSONStringify(WithLoginTime(userData, now), userData.circular)
      s2 == SetItem(s1, UserDataKey, json.item)
      ev == Effect("user:login", st, el, userData)
      r == updateAuthUI(s2, el)
  IN  CASE quota = "flag" ->
             [storage |-> st, el |-> el, threw |-> TRUE, effects |-> << ev >>]
        [] quota # "flag" /\ (json.threw \/ quota = "data") ->
             [storage |-> s1, el |-> el, threw |-> TRUE, effects |-> << ev >>]
        [] OTHER ->
             [storage |-> s2, el |-> r.el, threw |-> r.threw,
              effects |-> IF r.threw THEN << ev >>
                          ELSE << ev, Effect("render", s2, r.el, NoDetail) >>]

\* The body of login(userData) run on storage st and auth container el at
\* time now: [storage, el, threw, effects].  An exception leaves the function
\* at once.
loginRun(st, el, userData, quota, now) ==
  LET s1 == SetItem(st, StorageKey, Text("true"))
      json == JSONStringify(WithLoginTime(userData, now), userData.circular)
      s2 == SetItem(s1, UserDataKey, json.item)
      ev == Effect("user:login", s2, el, userData)
      r == updateAuthUI(s2, el)
  IN  CASE quota = "flag" ->
             [storage |-> st, el |-> el, threw |-> TRUE, effects |-> << >>]
        [] quota # "flag" /\ (json.threw \/ quota = "data") ->
             [storage |-> s1, el |-> el, threw |-> TRUE, effects |-> << >>]
        [] OTHER ->
             [storage |-> s2, el |-> r.el, threw |-> r.threw,
              effects |-> IF r.threw THEN << ev >>
                          ELSE << ev, Effect("render", s2, r.el, NoDetail) >>]

\* login(userData): one task; an exception reaches the top level uncaught.
login(userData, quota) ==
  /\ ~MicrotaskPending
  /\ LET run == loginRun(storage, authEl, userData, quota, clock)
     IN  /\ storage' = run.storage
         /\ authEl' = run.el
         /\ call' = Call("login", run.threw, run.effects,
                         storage[StorageKey] = NoItem /\ storage[UserDataKey] = NoItem,
                         storage[OtherKey], "-")
  /\ UNCHANGED << clock, headerEl, footerEl, authLoc, listeners, bootPc, ltPc,
                  hFetch, fFetch, hCount, fCount, pageBefore, console, appReady,
                  lazyRuns, bootAuth, observing, location >>
  /\ mutationPending' = (mutationPending \/ ChildListChanged(authEl, call'))
  /\ UNCHANGED << images, hasIO, button >>

\* Mutant: logout empties the whole storage (localStorage.clear()).
logoutRunClearsAll(st, el) ==
  LET s2 == [k \in Keys |-> NoItem]
      ev == Effect("user:logout", s2, el, NoDetail)
      r == updateAuthUI(s2, el)
  IN  [storage |-> s2, el |-> r.el, threw |-> r.threw,
       effects |-> IF r.threw THEN << ev >>
                   ELSE << ev, Effect("render", s2, r.el, NoDetail),
                           Effect("navigate", s2, r.el, NoDetail) >>]

\* Mutant: the redirect is started first, the clean-up follows.
logoutRunRedirectFirst(st, el) ==
  LET nav == Effect("navigate", st, el, NoDetail)
      s1 == RemoveItem(st, StorageKey)
      s2 == RemoveItem(s1, UserDataKey)
      ev == Effect("user:logout", s2, el, NoDetail)
      r == updateAuthUI(s2, el)
  IN  [storage |-> s2, el |-> r.el, threw |-> r.threw,
       effects |-> IF r.threw THEN << nav, ev >>
                   ELSE << nav, ev, Effect("render", s2, r.el, NoDetail) >>]

\* The body of logout() run on storage st and auth container el:
\* [storage, el, threw, effects].
logoutRun(st, el) ==
  LET s1 == RemoveItem(st, StorageKey)
      s2 == RemoveItem(s1, UserDataKey)
      ev == Effect("user:logout", s2, el, NoDetail)
      r == updateAuthUI(s2, el)
  IN  [storage |-> s2, el |-> r.el, threw |-> r.threw,
       effects |-> IF r.threw THEN << ev >>
                   ELSE << ev, Effect("render", s2, r.el, NoDetail),
                           Effect("navigate", s2, r.el, NoDetail) >>]

\* logout(): one task.
logout ==
  /\ ~MicrotaskPending
  /\ LET run == logoutRun(storage, authEl)
         afterLogin == call.op = "login" /\ ~call.threw /\ call.cleanStart
     IN  /\ storage' = run.storage
         /\ authEl' = run.el
         /\ location' = IF \E i \in 1..Len(run.effects) : run.effects[i].e = "navigate"
                          THEN "/" ELSE location
         /\ call' = Call("logout", run.threw, run.effects, FALSE,
                         IF afterLogin THEN call.xStart ELSE NoItem,
                         IF afterLogin THEN "cleanLogin" ELSE "-")
  /\ UNCHANGED << clock, headerEl, footerEl, authLoc, listeners, bootPc, ltPc,
                  hFetch, fFetch, hCount, fCount, pageBefore, console, appReady,
                  lazyRuns, bootAuth, observing >>
  /\ mutationPending' = (mutationPending \/ ChildListChanged(authEl, call'))
  /\ UNCHANGED << images, hasIO, button >>

\* Mutant: a failed parse is cleaned up by removing the user data key before
\* the error is rethrown.
CallUpdateAuthUIClearing ==
  /\ ~MicrotaskPending
  /\ LET r == updateAuthUI(storage, authEl)
     IN  /\ authEl' = r.el
         /\ storage' = IF r.threw THEN RemoveItem(storage, UserDataKey) ELSE storage
         /\ call' = Call("updateAuthUI", r.threw,
                         IF r.threw THEN << >>
                         ELSE << Effect("render", storage, r.el, NoDetail) >>,
                         FALSE, NoItem,
                         IF call.op = "updateAuthUI" THEN "updateAuthUI" ELSE "-")
  /\ UNCHANGED << clock, headerEl, footerEl, authLoc, listeners, bootPc,
                  ltPc, hFetch, fFetch, hCount, fCount, pageBefore, console,
                  appReady, lazyRuns, bootAuth, observing, location >>
  /\ mutationPending' = (mutationPending \/ ChildListChanged(authEl, call'))
  /\ UNCHANGED << images, hasIO, button >>

\* window.updateAuthUI(), called directly by a page script or inline handler.
CallUpdateAuthUI ==
  /\ ~MicrotaskPending
  /\ LET r == updateAuthUI(storage, authEl)
     IN  /\ authEl' = r.el
         /\ call' = Call("updateAuthUI", r.threw,
                         IF r.threw THEN << >>
                         ELSE << Effect("render", storage, r.el, NoDetail) >>,
                         FALSE, NoItem,
                         IF call.op = "updateAuthUI" THEN "updateAuthUI" ELSE "-")
  /\ UNCHANGED << storage, clock, headerEl, footerEl, authLoc, listeners, bootPc,
                  ltPc, hFetch, fFetch, hCount, fCount, pageBefore, console,
                  appReady, lazyRuns, bootAuth, observing, location >>
  /\ mutationPending' = (mutationPending \/ ChildListChanged(authEl, call'))
  /\ UNCHANGED << images, hasIO, button >>

\* ------------------------------------------------------------ lazy loading

\* Mutant: the observer is configured with attributes: true as well, so the
\* attribute changes of the run itself queue the callback again.
MutationCallbackAttributes ==
  /\ mutationPending
  /\ mutationPending' =
       \E i \in Images : setupLazyLoading(images, hasIO)[i].src # images[i].src
  /\ images' = setupLazyLoading(images, hasIO)
  /\ call' = [call EXCEPT !.observed = TRUE]
  /\ UNCHANGED << storage, clock, headerEl, footerEl, authLoc, authEl, listeners,
                  bootPc, ltPc, hFetch, fFetch, hCount, fCount, pageBefore, console,
                  appReady, lazyRuns, bootAuth, observing, location, hasIO,
                  button >>

\* The MutationObserver's callback: the observer's records are taken and
\* setupLazyLoading runs again over the document.
MutationCallback ==
  /\ mutationPending
  /\ mutationPending' = FALSE
  /\ images' = setupLazyLoading(images, hasIO)
  /\ call' = [call EXCEPT !.observed = TRUE]
  /\ UNCHANGED << storage, clock, headerEl, footerEl, authLoc, authEl, listeners,
                  bootPc, ltPc, hFetch, fFetch, hCount, fCount, pageBefore, console,
                  appReady, lazyRuns, bootAuth, observing, location, hasIO,
                  button >>

\* A page script puts img element i into the document: a childList change.
AddImage(i, img) ==
  /\ ~MicrotaskPending
  /\ ~images[i].inDom
  /\ img.inDom
  /\ images' = [images EXCEPT ![i] = img]
  /\ mutationPending' = observing
  /\ call' = Task("addImage")
  /\ UNCHANGED << storage, clock, headerEl, footerEl, authLoc, authEl, listeners,
                  bootPc, ltPc, hFetch, fFetch, hCount, fCount, pageBefore, console,
                  appReady, lazyRuns, bootAuth, observing, location, hasIO, button >>

\* The user scrolls: image i enters or leaves the viewport.
Scroll(i) ==
  /\ images[i].inDom
  /\ images' = [images EXCEPT ![i].visible = ~@]
  /\ UNCHANGED << storage, clock, headerEl, footerEl, authLoc, authEl, listeners,
                  bootPc, ltPc, hFetch, fFetch, hCount, fCount, pageBefore, console,
                  appReady, lazyRuns, bootAuth, observing, location, call, hasIO,
                  mutationPending, button >>

\* Mutant: the entry is resolved without a look at its data-src.
IntersectionEntryUnguarded(img) ==
  [Resolve(img) EXCEPT !.observers = @ - 1, !.handled = @ + 1]

\* One entry of an IntersectionObserver callback, for an observed image that
\* intersects the viewport: the image is resolved if it still has a data-src,
\* and the observer that delivered the entry unobserves it.
IntersectionEntry(img) ==
  LET done == IF img.dataSrc # "none" THEN Resolve(img) ELSE img
  IN  [done EXCEPT !.observers = @ - 1, !.handled = @ + 1]

\* One of the observers that observe image i delivers its callback.
IntersectionCallback(i) ==
  /\ ~MicrotaskPending
  /\ images[i].inDom
  /\ images[i].visible
  /\ images[i].observers > 0
  /\ images' = [images EXCEPT ![i] = IntersectionEntry(images[i])]
  /\ call' = Task("intersectionCallback")
  /\ UNCHANGED << storage, clock, headerEl, footerEl, authLoc, authEl, listeners,
                  bootPc, ltPc, hFetch, fFetch, hCount, fCount, pageBefore, console,
                  appReady, lazyRuns, bootAuth, observing, location, hasIO,
                  mutationPending, button >>

\* No image is observed by MaxObservers observers yet.
ObserverRoom == \A i \in Images : images[i].observers < MaxObservers

\* ---------------------------------------------------------- button loading

\* dataset.originalText || 'Submit': undefined and "" are falsy.
OriginalOrSubmit(b) ==
  IF b.originalText \notin {"none", ""} THEN b.originalText ELSE "Submit"

\* setButtonLoading(button, isLoading).
setButtonLoading(isLoading) ==
  /\ ~MicrotaskPending
  /\ isLoading => button.loads < MaxLoads
  /\ button' =
       IF isLoading
         THEN [button EXCEPT !.disabled = TRUE, !.originalText = button.text,
                             !.text = "Loading...",
                             !.L = IF button.loads = 0 THEN button.text ELSE @,
                             !.loads = @ + 1, !.restored = FALSE]
         ELSE [button EXCEPT !.disabled = FALSE, !.text = OriginalOrSubmit(button),
                             !.loads = 0, !.restored = button.loads >= 1]
  /\ UNCHANGED << storage, clock, headerEl, footerEl, authLoc, authEl, listeners,
                  bootPc, ltPc, hFetch, fFetch, hCount, fCount, pageBefore, console,
                  appReady, lazyRuns, bootAuth, observing, location, call, images,
                  hasIO, mutationPending >>

\* resetButtonLoading(button).
resetButtonLoading == setButtonLoading(FALSE)

\* ------------------------------------------------------- expiring storage

\* The values a caller stores, and the minutes it gives them.
ExpiryValues == {Str(<< "a" >>), Str(<< "b" >>)}
ExpiryMinutes == {0 - 1, 0, 1}
JsNull == [k |-> "null", s |-> << >>]

\* setStorageWithExpiry(key, value, expiryMinutes), for the key OtherKey.
setStorageWithExpiry(value, expiryMinutes) ==
  /\ ~MicrotaskPending
  /\ LET expiryTime == clock + expiryMinutes * MsPerMinute
         json == JSONStringify([value |-> value, expiry |-> expiryTime], FALSE)
     IN  storage' = SetItem(storage, OtherKey, json.item)
  /\ call' = [op |-> "setStorageWithExpiry", threw |-> FALSE, value |-> value,
              minutes |-> expiryMinutes, now |-> clock]
  /\ UNCHANGED << clock, headerEl, footerEl, authLoc, authEl, listeners, bootPc,
                  ltPc, hFetch, fFetch, hCount, fCount, pageBefore, console,
                  appReady, lazyRuns, bootAuth, observing, location, images,
                  hasIO, mutationPending, button >>

\* The record of a getStorageWithExpiry call: what the key held when it began
\* (had), the clock reading (now), what it returned, whether it directly
\* follows a setStorageWithExpiry call (afterSet; the clock may have gone on
\* in between), and the minutes of the latest setStorageWithExpiry call.
Read(threw, result, afterSet) ==
  [op |-> "getStorageWithExpiry", threw |-> threw, result |-> result,
   had |-> storage[OtherKey], now |-> clock, afterSet |-> afterSet,
   minutes |-> IF call.op \in {"setStorageWithExpiry", "getStorageWithExpiry"}
                 THEN call.minutes ELSE 0]

\* Mutant: an expired entry reads as null but stays in storage.
getStorageWithExpiryKeeping ==
  /\ ~MicrotaskPending
  /\ LET item == storage[OtherKey]
         data == JSONParse(item)
         afterSet == call.op = "setStorageWithExpiry"
     IN  IF ~Truthy(item)
           THEN /\ call' = Read(FALSE, JsNull, afterSet)
                /\ UNCHANGED storage
         ELSE IF data.threw
           THEN /\ call' = Read(TRUE, JsNull, afterSet)
                /\ UNCHANGED storage
         ELSE IF "expiry" \in DOMAIN data.o /\ clock > data.o.expiry
           THEN /\ call' = Read(FALSE, JsNull, afterSet)
                /\ UNCHANGED storage
         ELSE /\ call' = Read(FALSE, data.o.value, afterSet)
              /\ UNCHANGED storage
  /\ UNCHANGED << clock, headerEl, footerEl, authLoc, authEl, listeners, bootPc,
                  ltPc, hFetch, fFetch, hCount, fCount, pageBefore, console,
                  appReady, lazyRuns, bootAuth, observing, location, images,
                  hasIO, mutationPending, button >>

\* getStorageWithExpiry(key), for the key OtherKey: null for an absent (or
\* empty) item, an uncaught error for an item that is no JSON, null and the
\* key removed when the clock is past the stored expiry, else the value.
getStorageWithExpiry ==
  /\ ~MicrotaskPending
  /\ LET item == storage[OtherKey]
         data == JSONParse(item)
         afterSet == call.op = "setStorageWithExpiry"
     IN  IF ~Truthy(item)
           THEN /\ call' = Read(FALSE, JsNull, afterSet)
                /\ UNCHANGED storage
         ELSE IF data.threw
           THEN /\ call' = Read(TRUE, JsNull, afterSet)
                /\ UNCHANGED storage
         ELSE IF "expiry" \in DOMAIN data.o /\ clock > data.o.expiry
           THEN /\ call' = Read(FALSE, JsNull, afterSet)
                /\ storage' = RemoveItem(storage, OtherKey)
         ELSE /\ call' = Read(FALSE, data.o.value, afterSet)
              /\ UNCHANGED storage
  /\ UNCHANGED << clock, headerEl, footerEl, authLoc, authEl, listeners, bootPc,
                  ltPc, hFetch, fFetch, hCount, fCount, pageBefore, console,
                  appReady, lazyRuns, bootAuth, observing, location, images,
                  hasIO, mutationPending, button >>

\* The clock goes on by a minute.
AdvanceMinute ==
  /\ clock < MaxMinutes * MsPerMinute
  /\ clock' = clock + MsPerMinute
  /\ UNCHANGED << storage, headerEl, footerEl, authLoc, authEl, listeners, bootPc,
                  ltPc, hFetch, fFetch, hCount, fCount, pageBefore, console,
                  appReady, lazyRuns, bootAuth, observing, location, call, images,
                  hasIO, mutationPending, button >>

\* -------------------------------------------------------- specifications

Next ==
  \/ \E h \in PriorContents, f \in PriorContents, a \in AuthLocs : PageLoad(h, f, a)
  \/ Tick
  \/ DOMContentLoaded
  \/ \E outcome \in FetchOutcomes : HeaderResponse(outcome)
  \/ \E ok \in BOOLEAN : HeaderText(ok)
  \/ \E outcome \in FetchOutcomes : FooterResponse(outcome)
  \/ \E ok \in BOOLEAN : FooterText(ok)
  \/ BootContinue
  \/ \E c \in LoginCalls : login(c[1], c[2])
  \/ logout
  \/ CallUpdateAuthUI
  \/ MutationCallback

\* The script on a browser whose storage only the script has written.
Spec == Init /\ [][Next]_vars

\* The script on a browser whose auth keys another writer has set.
SpecTampered == InitTampered /\ [][Next]_vars

\* A page with images, on a browser with or without IntersectionObserver:
\* the bootstrap, auth re-renders and inserted images as content mutations,
\* scrolling and the observers' callbacks.
InitLazy ==
  /\ InitPage(FreshStorage)
  /\ headerEl = "placeholder"
  /\ footerEl = "placeholder"
  /\ authLoc = "page"
  /\ images \in [Images -> UNION {MarkupImages(i) : i \in Images}]
  /\ \A i \in Images : images[i] \in MarkupImages(i)
  /\ hasIO \in BOOLEAN
  /\ button = MarkupButton("Save")

NextLazy ==
  \/ DOMContentLoaded
  \/ \E outcome \in FetchOutcomes : HeaderResponse(outcome)
  \/ \E ok \in BOOLEAN : HeaderText(ok)
  \/ \E outcome \in FetchOutcomes : FooterResponse(outcome)
  \/ \E ok \in BOOLEAN : FooterText(ok)
  \/ BootContinue
  \/ ObserverRoom /\ CallUpdateAuthUI
  \/ MutationCallback
  \/ \E i \in Images : \E img \in MarkupImages(i) : ObserverRoom /\ AddImage(i, img)
  \/ \E i \in Images : Scroll(i)
  \/ \E i \in Images : IntersectionCallback(i)

SpecLazy == InitLazy /\ [][NextLazy]_vars

\* The MutationObserver's callback is a microtask: it runs once it is queued.
SpecLazyFair == SpecLazy /\ WF_vars(MutationCallback)

\* The storage and button utilities, called by a page script at any time.
InitUtil ==
  /\ InitPage(FreshStorage)
  /\ headerEl = "placeholder"
  /\ footerEl = "placeholder"
  /\ authLoc = "page"
  /\ images = NoImages
  /\ hasIO = TRUE
  /\ button \in {MarkupButton(l) : l \in Labels}

NextUtil ==
  \/ Tick
  \/ AdvanceMinute
  \/ \E v \in ExpiryValues, m \in ExpiryMinutes : setStorageWithExpiry(v, m)
  \/ getStorageWithExpiry
  \/ \E b \in BOOLEAN : setButtonLoading(b)
  \/ resetButtonLoading

SpecUtil == InitUtil /\ [][NextUtil]_vars

\* ------------------------------------------------------------------ claims

FetchFailed(f) == f \in {"status", "rejected", "bodyError"}
FetchSettled(f) == f \in {"ok", "status", "rejected", "bodyError"}

\* C1: the two auth keys are in storage together or not at all, after any
\* sequence of login and logout calls, returned or aborted by an exception.
C1_AuthKeysTogether ==
  (storage[StorageKey] = NoItem) <=> (storage[UserDataKey] = NoItem)

\* C2: whatever became of the header fetch, loadTemplates has issued the
\* footer fetch by the time it is done and a successful footer fetch has put
\* the footer text into its container; and whatever became of the footer, a
\* successful header fetch has put the header text into its container.
C2_FetchesIndependent ==
  ltPc = "done" =>
    /\ fCount >= 1
    /\ (fFetch = "ok" /\ pageBefore.footer # "missing" => footerEl = FooterHTML)
    /\ (hFetch = "ok" /\ pageBefore.header # "missing" => headerEl = HeaderHTML)

\* C3 as stated: once either fetch has settled, both had been initiated.
C3_BothInitiatedBeforeEitherSettles ==
  FetchSettled(hFetch) \/ FetchSettled(fFetch) => hCount >= 1 /\ fCount >= 1

\* C3 as amended: the fetches run one after the other.  The footer fetch is
\* initiated only once the header fetch has settled with a response (and,
\* for an ok response, once the header text is injected); the two are never
\* pending together, and neither is issued twice.
C3_FetchesSequential ==
  /\ ~(hFetch = "pending" /\ fFetch = "pending")
  /\ (fCount >= 1 => hFetch \in {"ok", "status"})
  /\ (fCount >= 1 /\ hFetch = "ok" => headerEl = HeaderHTML)
  /\ hCount <= 1 /\ fCount <= 1

C3_Witness == fFetch = "pending" /\ hFetch = "ok"

\* C4: a template fetch that failed (a status that is not ok, a rejection, a
\* body that could not be read) leaves its container with the content it had
\* when loadTemplates was called; the failure is logged, and the fetch is not
\* issued again.
C4_FailedFetchLeavesContainer ==
  /\ FetchFailed(hFetch) =>
       /\ headerEl = pageBefore.header
       /\ hCount = 1
       /\ (IF hFetch = "status" THEN ErrHeaderStatus ELSE ErrTemplates) \in console
  /\ FetchFailed(fFetch) =>
       /\ footerEl = pageBefore.footer
       /\ fCount = 1
       /\ (IF fFetch = "status" THEN ErrFooterStatus ELSE ErrTemplates) \in console

C4_Witness ==
  /\ bootPc = "done"
  /\ hFetch = "status"
  /\ fFetch = "rejected"
  /\ headerEl = "placeholder"
  /\ footerEl = "placeholder"

\* C5: a login that began with both auth keys absent and returned, directly
\* followed by logout, leaves storage as it was before the login: both auth
\* keys absent, the other key as it was.
C5_LoginLogoutRoundTrip ==
  call.op = "logout" /\ call.follows = "cleanLogin" =>
    storage = [k \in Keys |-> IF k = OtherKey THEN call.xStart ELSE NoItem]

C5_Witness ==
  /\ call.op = "logout"
  /\ call.follows = "cleanLogin"
  /\ call.xStart = Text("opaque")

\* C6: logout removes both keys, then dispatches 'user:logout', then renders
\* the auth container, then starts the navigation to the site root: at the
\* event, at the render and at the navigation both auth keys are absent, and at
\* the navigation the auth container (when the page has one) shows the login
\* link.
C6_LogoutOrder ==
  call.op = "logout" =>
    /\ ~call.threw
    /\ Len(call.effects) = 3
    /\ call.effects[1].e = "user:logout"
    /\ call.effects[2].e = "render"
    /\ call.effects[3].e = "navigate"
    /\ \A i \in 1..3 : call.effects[i].flag = "null" /\ call.effects[i].data = "null"
    /\ call.effects[3].frag \in {"login", "missing"}
    /\ call.effects[3].frag = authEl.frag
    /\ location = "/"

C6_Witness ==
  /\ call.op = "logout"
  /\ call.follows = "cleanLogin"
  /\ authEl = AuthEl("login")
  /\ location = "/"

\* C7: on a page, 'app:ready' is dispatched at most once, never before
\* loadTemplates has returned, setupLazyLoading has run and the bootstrap's
\* updateAuthUI has returned, and exactly once when the bootstrap has got
\* through those steps (it has not when updateAuthUI threw: see C10).
C7_AppReadyOnce ==
  /\ appReady <= 1
  /\ (appReady = 1 => ltPc = "done" /\ lazyRuns >= 1 /\ bootAuth)
  /\ (bootPc = "done" <=> appReady = 1)
  /\ (bootPc = "done" <=> ltPc = "done" /\ lazyRuns >= 1 /\ bootAuth)

C7_Witness ==
  /\ appReady = 1
  /\ hFetch = "ok"
  /\ fFetch = "rejected"
  /\ authEl.frag = "welcome"

\* C8: after a completed bootstrap and after every returned login or logout,
\* the auth container (when the page has one) shows the welcome block when the
\* stored flag is 'true', naming the stored email if non-empty, else the stored
\* username if non-empty, else 'User', and the login link otherwise.  After a
\* returned login(d) the flag is 'true' and the record holds d's email and a
\* generated time stamp, and for a non-empty email e the block shows e.
StoredName(item) ==
  IF item.t = "json" /\ item.o.email.k = "string" /\ Len(item.o.email.s) > 0
    THEN item.o.email.s
  ELSE IF item.t = "json" /\ item.o.username.k = "string" /\ Len(item.o.username.s) > 0
    THEN item.o.username.s
  ELSE DefaultUser

C8_AuthFragmentFollowsStorage ==
  /\ ( /\ \/ call.op \in {"login", "logout"} /\ ~call.threw
          \/ call.op = "bootContinue" /\ bootPc = "done"
       /\ authEl.frag # "missing" )
     => IF storage[StorageKey].t = "true"
          THEN /\ authEl.frag = "welcome"
               /\ RenderedText(authEl.name) = StoredName(storage[UserDataKey])
          ELSE authEl = AuthEl("login")
  /\ call.op = "login" /\ ~call.threw
     => LET d == call.effects[1].detail
        IN  /\ storage[StorageKey].t = "true"
            /\ storage[UserDataKey].t = "json"
            /\ storage[UserDataKey].o.email = d.email
            /\ storage[UserDataKey].o.loginTime.k = "iso"
            /\ (d.email.k = "string" /\ d.email.s # << >> /\ authEl.frag # "missing"
                 => authEl.frag = "welcome" /\ RenderedText(authEl.name) = d.email.s)

C8_Witness ==
  /\ call.op = "login"
  /\ ~call.threw
  /\ bootPc = "done"
  /\ authEl.frag = "welcome"
  /\ call.effects[1].detail.email = Str(SampleEmail)
  /\ call.effects[1].detail.username = Str(SampleName)

\* C9: a call of updateAuthUI leaves storage as it was, and a call that
\* directly follows another call of updateAuthUI leaves the auth container and
\* the outcome (returned or threw) as the first one left them.
C9_UpdateAuthUIIdempotent ==
  [][ call'.op = "updateAuthUI" =>
        /\ storage' = storage
        /\ (call.op = "updateAuthUI" => authEl' = authEl /\ call'.threw = call.threw)
    ]_vars

C9_Witness ==
  /\ call.op = "updateAuthUI"
  /\ call.follows = "updateAuthUI"
  /\ authEl.frag = "welcome"
  /\ RenderedText(authEl.name) = SampleEmail

\* The case of C10: the flag is 'true', the user data key holds a non-empty
\* string that is no JSON, and the page has an auth container.
CorruptLogin ==
  /\ isLoggedIn(storage)
  /\ storage[UserDataKey] = Text("garbage")
  /\ authEl.frag # "missing"

\* C10 as stated: in that case auth rendering, at startup as on a direct
\* call, ends in an uncaught error and leaves the container's prior content.
C10_ParseFailureUncaught ==
  [][ CorruptLogin /\ call'.op \in {"bootContinue", "updateAuthUI"} =>
        call'.threw /\ authEl' = authEl
    ]_vars

\* C10 as amended: in that case updateAuthUI throws and leaves the container
\* as it was.  On a direct call the error is uncaught.  At startup the
\* DOMContentLoaded handler catches and logs it, installs no MutationObserver
\* and dispatches no 'app:ready'.
C10_ParseFailurePropagates ==
  [][ CorruptLogin =>
        /\ (call'.op = "updateAuthUI" =>
              call'.threw /\ authEl' = authEl /\ storage' = storage)
        /\ (call'.op = "bootContinue" =>
              /\ ~call'.threw
              /\ ErrInit \in console'
              /\ bootPc' = "failed"
              /\ appReady' = 0
              /\ ~observing'
              /\ authEl' = authEl
              /\ storage' = storage)
    ]_vars

C10_Witness ==
  /\ CorruptLogin
  /\ bootPc = "failed"
  /\ call.op = "updateAuthUI"
  /\ call.threw
  /\ authEl = AuthEl("template")

\* C11: the first getStorageWithExpiry read after a setStorageWithExpiry call
\* with 0 or negative minutes returns null and finds the key absent
\* afterwards, however far the clock went on in between, not at all included.
C11_NonPositiveExpiryAbsent ==
  call.op = "getStorageWithExpiry" /\ call.afterSet /\ call.minutes <= 0 =>
    call.result = JsNull /\ storage[OtherKey] = NoItem

\* C12: setStorageWithExpiry(key, v, m) with m > 0 stores v with the expiry
\* instant m minutes after the clock reading.  A read of that entry while the
\* clock is before the instant returns v and leaves the entry; a read once
\* the clock is past the instant returns null and removes the key; a read of
\* the removed key returns null.
C12_ExpiryWindow ==
  /\ call.op = "setStorageWithExpiry" /\ call.minutes > 0 =>
       storage[OtherKey] =
         JsonText([value |-> call.value,
                   expiry |-> call.now + call.minutes * MsPerMinute])
  /\ call.op = "getStorageWithExpiry" /\ call.minutes > 0 /\ call.had.t = "json" =>
       /\ ~call.threw
       /\ call.now < call.had.o.expiry =>
            call.result = call.had.o.value /\ storage[OtherKey] = call.had
       /\ call.now > call.had.o.expiry =>
            call.result = JsNull /\ storage[OtherKey] = NoItem
  /\ call.op = "getStorageWithExpiry" /\ call.had = NoItem =>
       call.result = JsNull /\ storage[OtherKey] = NoItem

C12_Witness ==
  /\ call.op = "getStorageWithExpiry"
  /\ call.minutes = 1
  /\ call.had = JsonText([value |-> Str(<< "b" >>), expiry |-> MsPerMinute])
  /\ call.now = MsPerMinute + 1
  /\ call.result = JsNull
  /\ storage[OtherKey] = NoItem

\* C13: every image is handled by at most one intersection callback, and an
\* image that has been handled is observed by no observer any more.
C13_OneCallbackPerImage ==
  \A i \in Images :
    /\ images[i].handled <= 1
    /\ (images[i].handled >= 1 => images[i].observers = 0)

\* What the loader has made of image i, which the markup gave the data-src i:
\* untouched (no src yet), or resolved (src is i, the data-src is gone, one
\* copy made).
Untouched(img) == img.src = "none" /\ img.copies = 0
Resolved(i, img) == img.dataSrc = "none" /\ img.src = i /\ img.copies = 1

\* C14: an image with a data-src has no src from the loader until it is
\* resolved, and is resolved once: with IntersectionObserver only while it
\* intersects the viewport, and by the first callback that handles it;
\* without it, by the setupLazyLoading run that finds it.  A run or a callback
\* never changes the src of an image that has no data-src.
C14_LazyResolve ==
  /\ [](\A i \in Images :
          /\ images[i].dataSrc # "none" => Untouched(images[i])
          /\ images[i].copies >= 1 => Resolved(i, images[i])
          /\ images[i].handled >= 1 => Resolved(i, images[i])
          /\ (~hasIO /\ bootPc = "done" /\ ~mutationPending =>
                images[i].dataSrc = "none"))
  /\ [][\A i \in Images :
          images[i].inDom =>
            /\ (images'[i].src # images[i].src =>
                  images[i].dataSrc # "none" /\ (hasIO => images[i].visible))
            /\ (images[i].dataSrc = "none" => images'[i].dataSrc = "none")
       ]_vars

C14_Witness ==
  /\ hasIO
  /\ images["a.jpg"].handled = 2
  /\ Resolved("a.jpg", images["a.jpg"])
  /\ images["b.jpg"].src = "eager.jpg"

\* C19: the MutationObserver's callback takes the pending records, changes
\* no node of the document (only attributes of images and observer
\* registrations) and leaves no record pending; an IntersectionObserver
\* callback queues none either; so pending records are always taken.
C19_MutationLoopTerminates ==
  /\ [][ /\ (~call.observed /\ call'.observed =>
                /\ ~mutationPending'
                /\ authEl' = authEl
                /\ headerEl' = headerEl
                /\ footerEl' = footerEl
                /\ \A i \in Images : images'[i].inDom = images[i].inDom)
         /\ ((\E i \in Images : images'[i].handled # images[i].handled) =>
                ~mutationPending')
       ]_vars
  /\ (mutationPending ~> ~mutationPending)

C19_Witness ==
  /\ call.op = "updateAuthUI"
  /\ call.observed
  /\ ~mutationPending
  /\ images["a.jpg"].observers = 2
  /\ images["b.jpg"].copies = 1

\* C15: a setButtonLoading(button, false) call that ends a run of one or more
\* setButtonLoading(button, true) calls leaves the button enabled, with the
\* text it had when the run began.
C15_LabelRestored ==
  button.restored => ~button.disabled /\ button.text = button.L

\* C16: login dispatches 'user:login' when the flag is 'true' and the data
\* record is written; the event carries the submitted properties and not the
\* generated time stamp, which only the stored record has; the render follows
\* the event and shows the storage of that moment; no navigation is started.
C16_LoginOrder ==
  /\ [](call.op = "login" /\ Len(call.effects) >= 1 =>
          LET ev == call.effects[1]
          IN  /\ ev.e = "user:login"
              /\ ev.flag = "true"
              /\ ev.data = "json"
              /\ ev.detail.loginTime.k # "iso"
              /\ \E t \in 0..clock : storage[UserDataKey].o.loginTime = ISOString(t)
              /\ storage[UserDataKey].o.email = ev.detail.email
              /\ storage[UserDataKey].o.username = ev.detail.username
              /\ \A n \in 1..Len(call.effects) : call.effects[n].e # "navigate"
              /\ (~call.threw =>
                    /\ Len(call.effects) = 2
                    /\ call.effects[2].e = "render"
                    /\ call.effects[2].flag = "true"
                    /\ call.effects[2].data = "json"
                    /\ call.effects[2].frag = authEl.frag))
  /\ [](call.op = "login" /\ ~call.threw => Len(call.effects) = 2)
  /\ [][call'.op = "login" => location' = location]_vars

C16_Witness ==
  /\ call.op = "login"
  /\ ~call.threw
  /\ call.effects[1].detail = StampedArg
  /\ storage[UserDataKey].o.loginTime.k = "iso"
  /\ authEl.frag = "welcome"
  /\ bootPc = "done"

\* C17: attachHeaderEventListeners has run at most once on a page, and it has
\* run exactly when the header fragment is in its container: not before the
\* fetch has given an ok response, never after a failed header fetch.
C17_ListenersAfterInjection ==
  /\ listeners <= 1
  /\ (listeners = 1 <=> headerEl = HeaderHTML)
  /\ (listeners = 1 => hFetch = "ok" /\ ltPc \notin {"idle", "headerFetch", "headerText"})
  /\ (bootPc = "start" => listeners = 0)
  /\ (FetchFailed(hFetch) => listeners = 0)

C17_Witness ==
  /\ listeners = 1
  /\ bootPc = "done"
  /\ headerEl = HeaderHTML
  /\ FetchFailed(fFetch)

\* C18: loadTemplates waits only for a pending fetch or body and otherwise
\* has returned: after a rejected or unreadable header, after any failed
\* footer, after a missing container; it never ends in a rejection.  Once it
\* has returned the bootstrap's continuation is enabled, and when the
\* bootstrap is through, setupLazyLoading has run and the auth container is
\* rendered.
C18_LoadTemplatesSettles ==
  /\ ltPc \in {"idle", "headerFetch", "headerText", "footerFetch", "footerText", "done"}
  /\ (ltPc = "headerFetch" => hFetch = "pending")
  /\ (ltPc = "headerText" => hFetch = "ok")
  /\ (ltPc = "footerFetch" => fFetch = "pending")
  /\ (ltPc = "footerText" => fFetch = "ok")
  /\ (hFetch \in {"rejected", "bodyError"} => ltPc = "done")
  /\ (FetchFailed(fFetch) => ltPc = "done")
  /\ (hFetch = "ok" /\ pageBefore.header = "missing" /\ ltPc # "headerText" =>
        ltPc = "done" /\ ErrTemplates \in console)
  /\ (ltPc = "done" /\ bootPc = "awaitTemplates" => ENABLED BootContinue)
  /\ bootPc \in {"start", "awaitTemplates", "done"}
  /\ (bootPc = "done" => ltPc = "done" /\ lazyRuns = 1 /\ bootAuth)
  /\ (bootPc = "awaitTemplates" => lazyRuns = 0 /\ ~bootAuth)

C18_Witness ==
  /\ bootPc = "done"
  /\ hFetch = "ok"
  /\ pageBefore.header = "missing"
  /\ fFetch = "none"
  /\ lazyRuns = 1
  /\ authEl = AuthEl("login")

====
